---- MODULE Spec2Model ----
(***************************************************************************)
(* State-machine model of buildtools (feralhosting/build-tools): version   *)
(* resolution, source acquisition, build-environment composition, the      *)
(* per-tool build procedure and the orchestration over BUILD_ORDER.        *)
(*                                                                         *)
(* Conventions.  A file-system path is a sequence of segments.  A          *)
(* PATH-like string "a:b" is the sequence of its components, so that       *)
(* ':'.join is concatenation and the empty string is one empty component.  *)
(* A directory name "<tool>-<version>" is the pair <<tool, version>> and   *)
(* "<tool>-<version>-build" the triple <<tool, version, "build">>.  The    *)
(* absent path (None) is the empty sequence.                               *)
(***************************************************************************)
EXTENDS Integers, Sequences, FiniteSets, TLC

VARIABLES
    \* ---- file system -------------------------------------------------
    archive,      \* tool -> state of downloads/<tool>-<version>.tar.gz
    srcdir,       \* tool -> state of downloads/<tool>-<version>
    builddir,     \* tool -> state of downloads/<tool>-<version>-build
    bin,          \* tool -> state of <LOCAL_PREFIX>/<tool>/bin
    \* ---- orchestrator --------------------------------------------------
    opc,          \* position of the orchestrator
    run,          \* number of orchestrator invocations so far
    force,        \* force-rebuild flag of the current invocation
    idx,          \* index into BUILD_ORDER of the tool whose turn it is
    tstate,       \* tool -> Pending | Skipped | Building | Built | Failed
    prevFailed,   \* tool at which the previous invocation failed, or "none"
    invoked,      \* tools whose build() was invoked in this invocation
    failedAt,     \* tools of this invocation one of whose steps failed
    \* ---- BaseBuilder.build() of the current tool -----------------------
    pc,           \* next step of build(), "idle" outside build()
    src_dir,      \* value returned by extract_source()
    dependencies, \* value returned by get_dependencies()
    env,          \* value returned by get_build_environment()
    trace,        \* steps of this build() so far, each with its outcome
    cmds,         \* external commands run by this build(), in order
    result,       \* return value of build()
    \* ---- config.get_versions -------------------------------------------
    COMPAT_SET,   \* os.environ COMPAT_SET as read at import
    overrides,    \* tool -> <TOOL>_VERSION as read at import
    resolved,     \* outcome of the last get_versions() call
    \* ---- utils.get_build_env -------------------------------------------
    tools_built,  \* argument of get_build_env
    osenv,        \* os.environ of the process
    envOut,       \* outcome of the last get_build_env() call
    \* ---- downloader ----------------------------------------------------
    target,       \* tool whose archive the calls are about
    acq,          \* record of the last download_file / extract_archive call
    firstPath,    \* path returned by the first extraction that returned one
    \* ---- mirror_tester -------------------------------------------------
    cache,        \* ~/.cache/build-tools/mirror_cache.json
    now,          \* time.time()
    mir,          \* record of the last find_fastest_mirror call
    \* ---- BaseBuilder.clean / is_built ---------------------------------
    downloads,    \* entries of the downloads directory, by name
    builder,      \* tool_name and version the builder was constructed with
    cln,          \* record of the last clean() call
    isb,          \* record of the last is_built() call
    \* ---- per-tool log file ---------------------------------------------
    log,          \* lines of logs/<tool>.log
    logged,       \* record of the last run_command call that wrote to it
    \* ---- build directory and external process --------------------------
    cfgDir,       \* state of the build directory as configure started
    child         \* the external process of the command an interrupt cut short

fsVars    == <<archive, srcdir, builddir, bin>>
orchVars  == <<opc, run, force, idx, tstate, prevFailed, invoked, failedAt>>
buildVars == <<pc, src_dir, dependencies, env, trace, cmds, result>>
verVars   == <<COMPAT_SET, overrides, resolved>>
envVars   == <<tools_built, osenv, envOut>>
acqVars   == <<target, acq, firstPath>>
mirVars   == <<cache, now, mir>>
clnVars   == <<downloads, builder, cln, isb>>
logVars   == <<log, logged>>
extVars   == <<mirVars, clnVars, logVars, child>>
vars      == <<fsVars, orchVars, buildVars, verVars, envVars, acqVars, extVars, cfgDir>>

----------------------------------------------------------------------------
(* Bounds of the model *)

\* orchestrator invocations per behaviour
MaxRuns == 2
\* archives that are not good in the initial file system of a build run
MaxBadArchives == 1
\* length of the tools_built argument drawn for get_build_env
MaxBuiltLen == 2

----------------------------------------------------------------------------
(* config.py *)

BUILD_ORDER == <<"binutils", "gcc", "make", "autoconf", "automake", "libtool">>

Tools == {BUILD_ORDER[i] : i \in DOMAIN BUILD_ORDER}

\* position of a tool in BUILD_ORDER (list.index)
IndexOf(t) == CHOOSE i \in DOMAIN BUILD_ORDER : BUILD_ORDER[i] = t

CompatSetsLegacyWithoutLibtool ==
    [latest |-> [gcc |-> "14.2.0", binutils |-> "2.43", make |-> "4.4.1",
                 autoconf |-> "2.72", automake |-> "1.17", libtool |-> "2.4.7"],
     stable |-> [gcc |-> "13.3.0", binutils |-> "2.42", make |-> "4.4.1",
                 autoconf |-> "2.71", automake |-> "1.16.5", libtool |-> "2.4.7"],
     legacy |-> [gcc |-> "11.4.0", binutils |-> "2.40", make |-> "4.4",
                 autoconf |-> "2.71", automake |-> "1.16.5"]]

COMPATIBILITY_SETS ==
    [latest |-> [gcc |-> "14.2.0", binutils |-> "2.43", make |-> "4.4.1",
                 autoconf |-> "2.72", automake |-> "1.17", libtool |-> "2.4.7"],
     stable |-> [gcc |-> "13.3.0", binutils |-> "2.42", make |-> "4.4.1",
                 autoconf |-> "2.71", automake |-> "1.16.5", libtool |-> "2.4.7"],
     legacy |-> [gcc |-> "11.4.0", binutils |-> "2.40", make |-> "4.4",
                 autoconf |-> "2.71", automake |-> "1.16.5", libtool |-> "2.4.6"]]

\* MAKE_JOBS as configured for the run
MAKE_JOBS == 4

\* get_versions with the override test dropped: an unset (empty) override
\* replaces the compatibility set's version
GetVersionsEmptyOverrideWins(cs, ov) ==
    IF cs \notin DOMAIN COMPATIBILITY_SETS
    THEN [raised |-> "ValueError", versions |-> [t \in {} |-> ""]]
    ELSE [raised |-> "none",
          versions |-> [t \in DOMAIN COMPATIBILITY_SETS[cs] \cup DOMAIN ov |->
                           IF t \in DOMAIN ov THEN ov[t]
                           ELSE COMPATIBILITY_SETS[cs][t]]]

\* get_versions(): raises ValueError on an unknown set, else the set's copy
\* with versions[tool] = override for every non-empty override
GetVersions(cs, ov) ==
    IF cs \notin DOMAIN COMPATIBILITY_SETS
    THEN [raised |-> "ValueError", versions |-> [t \in {} |-> ""]]
    ELSE LET base == COMPATIBILITY_SETS[cs]
             set  == {t \in DOMAIN ov : ov[t] # ""}
         IN  [raised |-> "none",
              versions |-> [t \in DOMAIN base \cup set |->
                               IF t \in set THEN ov[t] ELSE base[t]]]

\* the version a builder is constructed with in a build run
Version(t) == COMPATIBILITY_SETS["latest"][t]

----------------------------------------------------------------------------
(* Paths *)

\* every segment of a path is a tuple of strings
LOCAL_PREFIX == << <<"prefix">> >>
DOWNLOADS    == << <<"downloads">> >>

\* Path(local_prefix) / tool / 'bin'
BinDir(t) == LOCAL_PREFIX \o << <<t>>, <<"bin">> >>

\* "<tool>-<version>" and "<tool>-<version>-build"
SrcName(t)   == <<t, Version(t)>>
BuildName(t) == <<t, Version(t), "build">>

----------------------------------------------------------------------------
(* utils.py: environment *)

\* os.environ.get('PATH', '')
CurrentPath(os) == IF "PATH" \in DOMAIN os THEN os["PATH"] ELSE << <<>> >>

\* the built tools whose bin directory exists, in the order listed
ExistingBins(tb, binState) == SelectSeq(tb, LAMBDA t : binState[t] # "absent")

\* get_build_env without the exists() test on the bin directories
GetBuildEnvNoExistsTest(tb, binState, os) ==
    LET paths == [i \in 1..Len(tb) |-> BinDir(tb[i])]
    IN  IF paths # <<>>
        THEN [PATH |-> paths \o CurrentPath(os), MAKEFLAGS |-> <<"-j", MAKE_JOBS>>]
        ELSE [MAKEFLAGS |-> <<"-j", MAKE_JOBS>>]

\* get_build_env(tools_built, local_prefix, make_jobs)
GetBuildEnv(tb, binState, os) ==
    LET ex    == ExistingBins(tb, binState)
        paths == [i \in 1..Len(ex) |-> BinDir(ex[i])]
    IN  IF paths # <<>>
        THEN [PATH |-> paths \o CurrentPath(os), MAKEFLAGS |-> <<"-j", MAKE_JOBS>>]
        ELSE [MAKEFLAGS |-> <<"-j", MAKE_JOBS>>]

\* the empty environment {}
NoEnv == [k \in {} |-> <<>>]

\* run_command's merge with the given environment ignored
MergeEnvIgnoresEnv(os, e) == os

\* run_command: full_env = os.environ.copy(); if env: full_env.update(env)
MergeEnv(os, e) ==
    IF DOMAIN e = {} THEN os
    ELSE [k \in DOMAIN os \cup DOMAIN e |-> IF k \in DOMAIN e THEN e[k] ELSE os[k]]

\* run_command(cmd, cwd, env, log_file): the process started and how it ended;
\* true iff the process ran and its return code is 0
RunCommand(cmd, cwd, e, outcome) ==
    [cmd |-> cmd, cwd |-> cwd, env |-> MergeEnv(osenv, e), outcome |-> outcome,
     ok |-> (outcome = "rc0")]

\* how an external process can end: return code 0, nonzero, or Popen raising
CmdOutcomes == {"rc0", "rc1", "exception"}

----------------------------------------------------------------------------
(* downloader.py *)

\* None
NoPath == <<>>

\* states of an archive file: absent, truncated (a partial or damaged
\* download that tarfile cannot read), empty (a valid tar without members),
\* good; and of an extracted directory: absent, partial, complete
ArchiveStates == {"absent", "truncated", "empty", "good"}

\* what the mirror delivers when the transfer runs to its end
RemoteKinds == {"good", "empty", "truncated"}

\* how urlretrieve can end: it returns; it raises before the destination file
\* is created; it raises after part of the file is written; the same, and the
\* handler's unlink() raises in turn
UrlOutcomes == {"ok", "error_no_file", "error_partial", "error_partial_unlink_raises"}

\* urllib.request.urlretrieve(url, dest): the destination file afterwards
Urlretrieve(outcome, kind) ==
    CASE outcome = "ok"            -> [file |-> kind, raised |-> FALSE]
      [] outcome = "error_no_file" -> [file |-> "absent", raised |-> TRUE]
      [] OTHER                     -> [file |-> "truncated", raised |-> TRUE]

\* download_file whose handler leaves the partial download in place
DownloadFileKeepsPartial(a, outcome, kind) ==
    IF a # "absent"
    THEN [file |-> a, ret |-> "True", net |-> FALSE, wrote |-> FALSE]
    ELSE LET r == Urlretrieve(outcome, kind)
         IN  IF ~r.raised
             THEN [file |-> r.file, ret |-> "True", net |-> TRUE, wrote |-> TRUE]
             ELSE [file |-> r.file, ret |-> "False", net |-> TRUE,
                   wrote |-> (r.file # "absent")]

\* download_file(url, dest) on a destination in state a
DownloadFile(a, outcome, kind) ==
    IF a # "absent"
    THEN [file |-> a, ret |-> "True", net |-> FALSE, wrote |-> FALSE]
    ELSE LET r == Urlretrieve(outcome, kind)
         IN  IF ~r.raised
             THEN [file |-> r.file, ret |-> "True", net |-> TRUE, wrote |-> TRUE]
             ELSE IF r.file = "absent"
             THEN [file |-> "absent", ret |-> "False", net |-> TRUE, wrote |-> FALSE]
             ELSE IF outcome = "error_partial_unlink_raises"
             THEN [file |-> r.file, ret |-> "raised", net |-> TRUE, wrote |-> TRUE]
             ELSE [file |-> "absent", ret |-> "False", net |-> TRUE, wrote |-> TRUE]

\* how far urlretrieve has come when the interrupt arrives: the destination
\* file is not yet created, or part of it is written
InterruptPoints == {"before_file", "file_partial"}

\* download_file cut short inside urlretrieve by signal_handler: sys.exit(1)
\* raises SystemExit, which `except Exception` does not catch, so the
\* handler's unlink() is not run
DownloadFileInterrupted(a, point) ==
    IF a # "absent"
    THEN [file |-> a, ret |-> "True", net |-> FALSE, wrote |-> FALSE]
    ELSE IF point = "before_file"
    THEN [file |-> "absent", ret |-> "exited", net |-> TRUE, wrote |-> FALSE]
    ELSE [file |-> "truncated", ret |-> "exited", net |-> TRUE, wrote |-> TRUE]

\* tar.getnames() of tool t's archive: the <tool>-<version> tree
Members(t, a) ==
    IF a = "good"
    THEN << <<SrcName(t)>>, <<SrcName(t), <<"configure">> >> >>
    ELSE <<>>

\* members[0].split('/')[0]
TopDir(members) == members[1][1]

\* how tar.extractall can end: it completes; it raises before it creates
\* anything; it raises with part of the tree written
ExtractOutcomes == {"ok", "error_nothing", "error_partial"}

\* extract_archive without the extracted_path.exists() shortcut
ExtractArchiveAlwaysExtracts(t, a, d, outcome) ==
    IF a = "absent" \/ a = "truncated" \/ Members(t, a) = <<>>
    THEN [ret |-> NoPath, dir |-> d, extracted |-> FALSE]
    ELSE IF outcome = "ok"
         THEN [ret |-> DOWNLOADS \o <<TopDir(Members(t, a))>>, dir |-> "complete",
               extracted |-> TRUE]
         ELSE [ret |-> NoPath, dir |-> IF d = "absent" THEN "partial" ELSE d,
               extracted |-> TRUE]

\* extract_archive(archive, dest_dir) for tool t's archive in state a, with
\* the directory named by the archive's top-level entry in state d
ExtractArchive(t, a, d, outcome) ==
    IF a = "absent"
    THEN [ret |-> NoPath, dir |-> d, extracted |-> FALSE]
    ELSE IF a = "truncated"
    THEN [ret |-> NoPath, dir |-> d, extracted |-> FALSE]
    ELSE LET members == Members(t, a)
         IN  IF members = <<>>
             THEN [ret |-> NoPath, dir |-> d, extracted |-> FALSE]
             ELSE LET extracted_path == DOWNLOADS \o <<TopDir(members)>>
                  IN  IF d # "absent"
                      THEN [ret |-> extracted_path, dir |-> d, extracted |-> FALSE]
                      ELSE CASE outcome = "ok" ->
                                  [ret |-> extracted_path, dir |-> "complete",
                                   extracted |-> TRUE]
                             [] outcome = "error_nothing" ->
                                  [ret |-> NoPath, dir |-> "absent", extracted |-> TRUE]
                             [] OTHER ->
                                  [ret |-> NoPath, dir |-> "partial", extracted |-> TRUE]

----------------------------------------------------------------------------
(* builders/*.py *)

\* get_dependencies with GccBuilder's list extended by a later tool
GetDependenciesGccOnMake(t) ==
    CASE t = "binutils" -> <<>>
      [] t = "gcc"      -> <<"binutils", "make">>
      [] t = "make"     -> <<"binutils", "gcc">>
      [] t = "autoconf" -> <<"binutils", "gcc", "make">>
      [] t = "automake" -> <<"binutils", "gcc", "make", "autoconf">>
      [] t = "libtool"  -> <<"binutils", "gcc", "make", "autoconf", "automake">>

\* LibtoolBuilder.get_dependencies without automake
GetDependenciesLibtoolWithoutAutomake(t) ==
    CASE t = "binutils" -> <<>>
      [] t = "gcc"      -> <<"binutils">>
      [] t = "make"     -> <<"binutils", "gcc">>
      [] t = "autoconf" -> <<"binutils", "gcc", "make">>
      [] t = "automake" -> <<"binutils", "gcc", "make", "autoconf">>
      [] t = "libtool"  -> <<"binutils", "gcc", "make", "autoconf">>

\* <Tool>Builder.get_dependencies()
GetDependencies(t) ==
    CASE t = "binutils" -> <<>>
      [] t = "gcc"      -> <<"binutils">>
      [] t = "make"     -> <<"binutils", "gcc">>
      [] t = "autoconf" -> <<"binutils", "gcc", "make">>
      [] t = "automake" -> <<"binutils", "gcc", "make", "autoconf">>
      [] t = "libtool"  -> <<"binutils", "gcc", "make", "autoconf", "automake">>

\* install_dir as the prefix itself, shared by the tools
InstallDirIsPrefix(t) == LOCAL_PREFIX

\* self.install_dir = Path(local_prefix) / tool_name
InstallDir(t) == LOCAL_PREFIX \o << <<t>> >>

\* <Tool>Builder.get_configure_args(): options as <<name, value>>
GetConfigureArgs(t) ==
    CASE t = "binutils" ->
           << <<"--prefix", InstallDir(t)>>, <<"--disable-nls", <<>> >>,
              <<"--disable-werror", <<>> >>, <<"--enable-gold", <<>> >>,
              <<"--enable-ld=default", <<>> >>, <<"--enable-plugins", <<>> >>,
              <<"--with-system-zlib", <<>> >> >>
      [] t = "gcc" ->
           << <<"--prefix", InstallDir(t)>>,
              <<"--with-ld", BinDir("binutils") \o << <<"ld">> >> >>,
              <<"--with-as", BinDir("binutils") \o << <<"as">> >> >>,
              <<"--disable-nls", <<>> >>, <<"--enable-languages=c,c++", <<>> >>,
              <<"--disable-multilib", <<>> >>, <<"--enable-default-pie", <<>> >>,
              <<"--enable-default-ssp", <<>> >> >>
      [] t = "make" ->
           << <<"--prefix", InstallDir(t)>>, <<"--disable-nls", <<>> >> >>
      [] OTHER ->
           << <<"--prefix", InstallDir(t)>> >>

\* the builders that override get_build_directory with a separate directory
SeparateBuildDir(t) == t \in {"binutils", "gcc", "make"}

\* <Tool>Builder.get_build_directory(src_dir): the path returned
GetBuildDirectory(t, sd) ==
    IF SeparateBuildDir(t) THEN DOWNLOADS \o <<BuildName(t)>> ELSE sd

\* build_dir.mkdir(exist_ok=True): the directory afterwards
Mkdir(d) == IF d = "absent" THEN "empty" ELSE d

\* is_built() without the test for an entry: bin_dir.exists() alone
IsBuiltIfBinExists(b) == b \in {"empty", "partial", "complete"}

\* BaseBuilder.is_built(): bin_dir.exists() and any(bin_dir.iterdir())
IsBuilt(b) == b \in {"partial", "complete"}

\* An install bin directory is absent, empty, partial (entries written by an
\* install that did not complete) or complete.

\* what a `make install` that ends with a nonzero return code has done to the
\* bin directory before failing: nothing, created it, written entries into it
InstallEffects == {"none", "mkdir", "some"}

\* the bin directory after `make install`
InstallBin(b, outcome, effect) ==
    CASE outcome = "rc0"       -> "complete"
      [] outcome = "exception" -> b
      [] effect = "none"       -> b
      [] effect = "mkdir"      -> Mkdir(b)
      [] OTHER                 -> IF b = "complete" THEN b ELSE "partial"

\* GccBuilder.pre_build_setup returning what the prerequisite step did
PreBuildSetupFatalPrereq(t, sd, scriptExists, outcome) ==
    IF t = "gcc"
    THEN IF scriptExists
         THEN [ret |-> (outcome = "rc0"),
               cmds |-> <<RunCommand([prog |-> << <<".">>, <<"contrib">>, <<"download_prerequisites">> >>,
                                      args |-> <<>>], sd, NoEnv, outcome)>>]
         ELSE [ret |-> FALSE, cmds |-> <<>>]
    ELSE [ret |-> TRUE, cmds |-> <<>>]

\* GccBuilder.pre_build_setup / BaseBuilder.pre_build_setup: the value
\* returned and the external commands run
PreBuildSetup(t, sd, scriptExists, outcome) ==
    IF t = "gcc" /\ scriptExists
    THEN [ret |-> TRUE,
          cmds |-> <<RunCommand([prog |-> << <<".">>, <<"contrib">>, <<"download_prerequisites">> >>,
                                 args |-> <<>>], sd, NoEnv, outcome)>>]
    ELSE [ret |-> TRUE, cmds |-> <<>>]

\* BaseBuilder.post_build_setup
PostBuildSetup(t) == TRUE

\* the steps of BaseBuilder.build(), in program order
BuildSteps == <<"extract", "pre", "configure", "make", "install", "post">>

StepIndex(step) == CHOOSE i \in DOMAIN BuildSteps : BuildSteps[i] = step

\* build() with the test after `make` dropped
AbortsExceptAfterMake(step, ok) == ~ok /\ step # "make"

\* build() with the test after `make install` dropped
AbortsExceptAfterInstall(step, ok) == ~ok /\ step # "install"

\* build(): `if not <step>: return False` after every step
Aborts(step, ok) == ~ok

----------------------------------------------------------------------------
(* mirror_tester.py *)

\* mirror URLs the callers' lists are made of
Mirrors == {"m1", "m2"}

\* longest mirror list drawn as input
MaxMirrors == 2

\* largest elapsed time of a probe that answered
MaxSpeed == 2

\* float('inf')
Inf == MaxSpeed + 1

\* None as a mirror URL
NoMirror == ""

\* None as the 'speed' of a cache entry
NoSpeed == 0

\* the cache is valid for 24 hours
CACHE_TTL == 86400

\* the cache file: kind is "nodir" when ~/.cache/build-tools cannot be
\* created, "absent" when the file does not exist, "corrupt" when it is not
\* JSON, "malformed" when it is JSON but not an object with a numeric
\* timestamp, and "entry" when it is what find_fastest_mirror wrote
CacheOf(kind) == [kind |-> kind, best_mirror |-> NoMirror, timestamp |-> 0, speed |-> NoSpeed]

\* what a probe of one mirror can do: answer after `elapsed`, or raise
ProbeOutcomes ==
    {[ok |-> FALSE, elapsed |-> 0]} \cup {[ok |-> TRUE, elapsed |-> k] : k \in 1..MaxSpeed}

\* what writing the cache file can do: succeed, fail in open() leaving the
\* file alone, or fail in json.dump() after open() truncated the file
WriteOutcomes == {"ok", "open_fails", "dump_fails"}

\* test_mirror_speed
TestMirrorSpeed(o) == IF o.ok THEN o.elapsed ELSE Inf

\* `cached_mirror in mirrors`
InList(m, mirrors) == \E i \in DOMAIN mirrors : mirrors[i] = m

\* find_fastest_mirror with the age test dropped
CacheHitIgnoresAge(mirrors, force_test, c, t) ==
    /\ c.kind # "nodir"
    /\ ~force_test /\ c.kind # "absent"
    /\ c.kind = "entry"
    /\ InList(c.best_mirror, mirrors)

\* find_fastest_mirror with the membership test dropped
CacheHitIgnoresList(mirrors, force_test, c, t) ==
    /\ c.kind # "nodir"
    /\ ~force_test /\ c.kind # "absent"
    /\ c.kind = "entry"
    /\ t - c.timestamp < CACHE_TTL

\* find_fastest_mirror, lines 36-60: the cached mirror is returned
CacheHit(mirrors, force_test, c, t) ==
    /\ c.kind # "nodir"                        \* mkdir did not raise
    /\ ~force_test /\ c.kind # "absent"        \* not force_test and cache_file.exists()
    /\ c.kind = "entry"                        \* json.load and .get did not raise
    /\ t - c.timestamp < CACHE_TTL
    /\ InList(c.best_mirror, mirrors)

\* the comparison of the sweep with ties going to the later mirror
FasterOrEqual(speed, best_time) == speed <= best_time

\* `if speed < best_time`
Faster(speed, best_time) == speed < best_time

\* find_fastest_mirror, lines 67-78: the loop over the mirrors from position i
RECURSIVE Sweep(_, _, _, _, _, _)
Sweep(mirrors, outcomes, i, best_mirror, best_time, probes) ==
    IF i > Len(mirrors)
    THEN [best_mirror |-> best_mirror, best_time |-> best_time, probes |-> probes]
    ELSE LET speed == TestMirrorSpeed(outcomes[i])
         IN  IF Faster(speed, best_time)
             THEN Sweep(mirrors, outcomes, i + 1, mirrors[i], speed, Append(probes, mirrors[i]))
             ELSE Sweep(mirrors, outcomes, i + 1, best_mirror, best_time, Append(probes, mirrors[i]))

\* find_fastest_mirror, lines 81-93: the cache file after the call
WriteCache(c, best_mirror, best_time, t, wr) ==
    IF c.kind = "nodir" THEN c                 \* cache_file is None
    ELSE IF wr = "open_fails" THEN c
    ELSE IF wr = "dump_fails" THEN CacheOf("corrupt")
    ELSE [kind |-> "entry", best_mirror |-> best_mirror, timestamp |-> t,
          speed |-> IF best_time # Inf THEN best_time ELSE NoSpeed]

\* find_fastest_mirror: the value returned or the exception raised, the
\* mirrors probed in order, and the cache file it leaves
FindFastestMirror(mirrors, force_test, c, t, outcomes, wr) ==
    IF CacheHit(mirrors, force_test, c, t)
    THEN [ret |-> c.best_mirror, raised |-> "none", probes |-> <<>>, cache |-> c]
    ELSE IF mirrors = <<>>
    THEN [ret |-> NoMirror, raised |-> "IndexError", probes |-> <<>>, cache |-> c]
    ELSE LET s == Sweep(mirrors, outcomes, 1, mirrors[1], Inf, <<>>)
         IN  [ret |-> s.best_mirror, raised |-> "none", probes |-> s.probes,
              cache |-> WriteCache(c, s.best_mirror, s.best_time, t, wr)]

----------------------------------------------------------------------------
(* BaseBuilder.clean and is_built over the directories' entries *)

\* a version string as the pieces that tell which names begin with which:
\* "4.4.1" is "4.4" followed by ".1", no other two versions of
\* COMPATIBILITY_SETS begin alike
Pieces(version) == IF version = "4.4.1" THEN <<"4.4", ".1">> ELSE <<version>>

\* f"{tool_name}-{version}", a name as a sequence of pieces
SrcPattern(b) == <<b.tool_name, "-">> \o Pieces(b.version)

\* f"{tool_name}-{version}-build"
BuildPattern(b) == SrcPattern(b) \o <<"-build">>

\* f"{tool_name}-{version}.tar.gz"
ArchiveName(b) == SrcPattern(b) \o <<".tar.gz">>

\* str.startswith
StartsWith(name, prefix) ==
    Len(prefix) <= Len(name) /\ SubSeq(name, 1, Len(prefix)) = prefix

\* an install directory: "absent" when <prefix>/<tool> does not exist,
\* "nobin" when it exists without bin, else the state of its bin
InstallDirExists(b) == b # "absent"

\* clean() with its first loop removing nothing
RemovedBySrcLoopNothing(b, dl) == {}

\* clean(), lines 134-138: the entries the first loop removes
RemovedBySrcLoop(b, dl) == {x \in dl : x.dir /\ StartsWith(x.name, SrcPattern(b))}

\* clean(), lines 141-145: the entries the second loop removes
RemovedByBuildLoop(b, dl) == {x \in dl : x.dir /\ x.name = BuildPattern(b)}

\* the exceptions a removal or a listing can raise in clean(): where, and,
\* for a removal, what had been removed before
CleanFaults(b, dl, binState) ==
    {[at |-> "none", item |-> <<>>, done |-> {}, left |-> binState]}
    \cup {[at |-> "install", item |-> <<>>, done |-> {}, left |-> l] :
             l \in IF InstallDirExists(binState) THEN {binState, "nobin"} ELSE {}}
    \cup {[at |-> "list", item |-> <<>>, done |-> {}, left |-> "absent"]}
    \cup UNION {{[at |-> "item", item |-> x.name, done |-> d, left |-> "absent"] :
                    d \in SUBSET (RemovedBySrcLoop(b, dl) \ {x})} :
                 x \in RemovedBySrcLoop(b, dl)}
    \cup {[at |-> "list2", item |-> <<>>, done |-> {}, left |-> "absent"]}

\* clean(), the body of the try: the exception it ends with, if any, and
\* the directories it leaves
CleanBody(b, dl, binState, f) ==
    IF f.at = "install"
    THEN [exc |-> "OSError", downloads |-> dl, bin |-> f.left]
    ELSE IF f.at = "list"
    THEN [exc |-> "OSError", downloads |-> dl, bin |-> "absent"]
    ELSE IF f.at = "item"
    THEN [exc |-> "OSError", downloads |-> dl \ f.done, bin |-> "absent"]
    ELSE LET dl1 == dl \ RemovedBySrcLoop(b, dl)
         IN  IF f.at = "list2"
             THEN [exc |-> "OSError", downloads |-> dl1, bin |-> "absent"]
             ELSE [exc |-> "none", downloads |-> dl1 \ RemovedByBuildLoop(b, dl1),
                   bin |-> "absent"]

\* clean() answering success whatever happened
CleanReturnsAlwaysTrue(exc) == TRUE

\* clean(): `return True` at the end of the try, `return False` in the handler
CleanReturns(exc) == exc = "none"

\* clean(): `except Exception` catches every exception of a removal
CleanPropagates(exc) == exc \notin {"none", "OSError"}

\* BaseBuilder.clean
Clean(b, dl, binState, f) ==
    LET r == CleanBody(b, dl, binState, f)
    IN  [ret |-> CleanReturns(r.exc), propagated |-> CleanPropagates(r.exc),
         downloads |-> r.downloads, bin |-> r.bin]

----------------------------------------------------------------------------
(* run_command writing the log file *)

\* most lines one external process prints
MaxLines == 2

\* most run_command calls on one log file
MaxLogCmds == 2

\* the lines an external process may print
Lines == {"a", "b"}

\* a line of the log file
LogLine(kind, text) == [kind |-> kind, text |-> text]

\* f"\n{'='*60}\n"
Separator == LogLine("====", "")

\* run_command, lines 93-96: the header of an invocation
Header(cmd, cwd) ==
    <<Separator, LogLine("Command", cmd), LogLine("Working directory", cwd), Separator>>

\* run_command, lines 111-116: the lines read from the process, as written
RECURSIVE Streamed(_)
Streamed(output) ==
    IF output = <<>> THEN <<>>
    ELSE <<LogLine("output", Head(output))>> \o Streamed(Tail(output))

\* run_command, lines 120-122 and 128-130: what ends an invocation; a
\* SystemExit raised by signal_handler is no Exception and ends it unwritten
Footer(outcome) ==
    CASE outcome = "rc0"       -> <<LogLine("Return code", "0")>>
      [] outcome = "rc1"       -> <<LogLine("Return code", "1")>>
      [] outcome = "exception" -> <<LogLine("Exception", "e")>>
      [] OTHER                 -> <<>>

\* open(log_file, 'w'): the file emptied
OpenTruncating(lg) == <<>>

\* open(log_file, 'a')
OpenAppending(lg) == lg

\* run_command: the log file after an invocation
WriteLog(lg, cmd, cwd, outcome, output) ==
    OpenAppending(lg) \o Header(cmd, cwd) \o Streamed(output) \o Footer(outcome)

\* what an invocation can end with: the outcomes of a command, or an
\* interrupt signal during it
LogOutcomes == CmdOutcomes \cup {"interrupted"}

----------------------------------------------------------------------------
(* Initial values shared by the specifications *)

AllAbsent == [t \in Tools |-> "absent"]

\* os.environ of a build run
DefaultOsEnv == [PATH |-> << <<"usr", "bin">>, <<"bin">> >>, HOME |-> << <<"home">> >>]

InitFs ==
    /\ archive = AllAbsent
    /\ srcdir = AllAbsent
    /\ builddir = AllAbsent
    /\ bin = AllAbsent

InitOrch ==
    /\ opc = "idle"
    /\ run = 0
    /\ force = FALSE
    /\ idx = 1
    /\ tstate = [t \in Tools |-> "Pending"]
    /\ prevFailed = "none"
    /\ invoked = <<>>
    /\ failedAt = {}

InitBuild ==
    /\ pc = "idle"
    /\ src_dir = NoPath
    /\ dependencies = <<>>
    /\ env = NoEnv
    /\ trace = <<>>
    /\ cmds = <<>>
    /\ result = FALSE

InitVer ==
    /\ COMPAT_SET = "latest"
    /\ overrides = [t \in Tools |-> ""]
    /\ resolved = [called |-> FALSE, raised |-> "none", versions |-> [t \in {} |-> ""]]

InitEnv ==
    /\ tools_built = <<>>
    /\ osenv = DefaultOsEnv
    /\ envOut = [called |-> FALSE, env |-> NoEnv]

InitAcq ==
    /\ target = "binutils"
    /\ acq = [op |-> "none", preArchive |-> "absent", preDir |-> "absent",
              dret |-> "none", xret |-> NoPath, net |-> FALSE, wrote |-> FALSE,
              extracted |-> FALSE]
    /\ firstPath = NoPath

InitMir ==
    /\ cache = CacheOf("absent")
    /\ now = 0
    /\ mir = [called |-> FALSE, mirrors |-> <<>>, force_test |-> FALSE,
              pre |-> CacheOf("absent"), at |-> 0, outcomes |-> <<>>, wr |-> "ok",
              ret |-> NoMirror, raised |-> "none", probes |-> <<>>]

InitCln ==
    /\ downloads = {}
    /\ builder = [tool_name |-> "binutils", version |-> "2.43"]
    /\ cln = [called |-> FALSE, pre |-> {}, preBin |-> "absent", fault |-> "none",
              ret |-> FALSE, propagated |-> FALSE]
    /\ isb = [called |-> FALSE, ret |-> FALSE]

InitLog ==
    /\ log = <<>>
    /\ logged = [called |-> FALSE, n |-> 0, pre |-> <<>>, cmd |-> "", cwd |-> "",
                 outcome |-> "rc0", output |-> <<>>]

InitExt == InitMir /\ InitCln /\ InitLog /\ child = "none"

----------------------------------------------------------------------------
(* Mirror selection: find_fastest_mirror() over a cache that ages *)

\* the mirror lists drawn as the caller's argument: no URL listed twice
MirrorLists ==
    {l \in UNION {[1..k -> Mirrors] : k \in 0..MaxMirrors} :
        \A i, j \in DOMAIN l : l[i] = l[j] => i = j}

\* the readings of the clock at which calls are made: a first one, one a
\* second short of 24 hours later, one 24 hours later
Times == {0, CACHE_TTL - 1, CACHE_TTL}

InitMirror ==
    /\ InitFs /\ InitOrch /\ InitBuild /\ InitVer /\ InitEnv /\ InitAcq
    /\ InitCln /\ InitLog /\ child = "none" /\ cfgDir = "none"
    /\ cache \in {CacheOf(k) : k \in {"nodir", "absent", "corrupt", "malformed"}}
    /\ now = 0
    /\ mir = [called |-> FALSE, mirrors |-> <<>>, force_test |-> FALSE,
              pre |-> CacheOf("absent"), at |-> 0, outcomes |-> <<>>, wr |-> "ok",
              ret |-> NoMirror, raised |-> "none", probes |-> <<>>]

\* the probes and the cache write that a call goes through: none when the
\* cached mirror is returned or the list is empty, no write without a
\* cache directory
ProbeInputs(mirrors, force_test) ==
    IF CacheHit(mirrors, force_test, cache, now) \/ mirrors = <<>>
    THEN {[outcomes |-> <<>>, wr |-> "ok"]}
    ELSE {[outcomes |-> o, wr |-> w] :
             o \in [DOMAIN mirrors -> ProbeOutcomes],
             w \in IF cache.kind = "nodir" THEN {"ok"} ELSE WriteOutcomes}

CallFindFastestMirror ==
    /\ \E mirrors \in MirrorLists, force_test \in BOOLEAN :
         \E in \in ProbeInputs(mirrors, force_test) :
           \E r \in {FindFastestMirror(mirrors, force_test, cache, now, in.outcomes, in.wr)} :
               /\ cache' = r.cache
               /\ mir' = [called |-> TRUE, mirrors |-> mirrors, force_test |-> force_test,
                          pre |-> cache, at |-> now, outcomes |-> in.outcomes, wr |-> in.wr,
                          ret |-> r.ret, raised |-> r.raised, probes |-> r.probes]
    /\ UNCHANGED <<now, clnVars, logVars, child, cfgDir>>
    /\ UNCHANGED <<fsVars, orchVars, buildVars, verVars, envVars, acqVars>>

\* time passes between two calls
Tick ==
    /\ \E t \in Times : t > now /\ now' = t
    /\ UNCHANGED <<cache, mir, clnVars, logVars, child, cfgDir>>
    /\ UNCHANGED <<fsVars, orchVars, buildVars, verVars, envVars, acqVars>>

NextMirror == CallFindFastestMirror \/ Tick

SpecMirror == InitMirror /\ [][NextMirror]_vars

----------------------------------------------------------------------------
(* Cleaning: clean() and is_built() of one builder over a populated
   downloads directory and prefix *)

\* the builders clean() is called on, make of the legacy and of the latest
\* set, and the builder of another tool
MakeLegacy == [tool_name |-> "make", version |-> COMPATIBILITY_SETS["legacy"]["make"]]
MakeLatest == [tool_name |-> "make", version |-> COMPATIBILITY_SETS["latest"]["make"]]
BinutilsLatest == [tool_name |-> "binutils", version |-> COMPATIBILITY_SETS["latest"]["binutils"]]

\* what the downloads directory may hold: make's archive, source and build
\* directories, and binutils' source directory
DownloadsEntries ==
    {[name |-> SrcPattern(MakeLegacy), dir |-> TRUE],
     [name |-> BuildPattern(MakeLegacy), dir |-> TRUE],
     [name |-> ArchiveName(MakeLegacy), dir |-> FALSE],
     [name |-> SrcPattern(MakeLatest), dir |-> TRUE],
     [name |-> BuildPattern(MakeLatest), dir |-> TRUE],
     [name |-> ArchiveName(MakeLatest), dir |-> FALSE],
     [name |-> SrcPattern(BinutilsLatest), dir |-> TRUE]}

\* the install directories drawn: every state for make, two for binutils
InstallInputs ==
    {f \in [Tools -> {"absent", "nobin", "empty", "partial", "complete"}] :
        /\ f["binutils"] \in {"absent", "complete"}
        /\ \A t \in Tools \ {"make", "binutils"} : f[t] = "absent"}

InitClean ==
    /\ InitOrch /\ InitBuild /\ InitVer /\ InitEnv /\ InitAcq
    /\ InitMir /\ InitLog /\ child = "none" /\ cfgDir = "none"
    /\ archive = AllAbsent /\ srcdir = AllAbsent /\ builddir = AllAbsent
    /\ builder \in {MakeLegacy, MakeLatest}
    /\ downloads \in SUBSET DownloadsEntries
    /\ bin \in InstallInputs
    /\ cln = [called |-> FALSE, pre |-> {}, preBin |-> "absent", fault |-> "none",
              ret |-> FALSE, propagated |-> FALSE]
    /\ isb = [called |-> FALSE, ret |-> FALSE]

CallClean ==
    /\ \E f \in CleanFaults(builder, downloads, bin[builder.tool_name]) :
          LET r == Clean(builder, downloads, bin[builder.tool_name], f)
          IN  /\ downloads' = r.downloads
              /\ bin' = [bin EXCEPT ![builder.tool_name] = r.bin]
              /\ cln' = [called |-> TRUE, pre |-> downloads,
                         preBin |-> bin[builder.tool_name], fault |-> f.at,
                         ret |-> r.ret, propagated |-> r.propagated]
    /\ isb' = [called |-> FALSE, ret |-> FALSE]
    /\ UNCHANGED <<archive, srcdir, builddir, builder>>
    /\ UNCHANGED <<orchVars, buildVars, verVars, envVars, acqVars>>
    /\ UNCHANGED <<mirVars, logVars, child, cfgDir>>

CallIsBuilt ==
    /\ isb' = [called |-> TRUE, ret |-> IsBuilt(bin[builder.tool_name])]
    /\ UNCHANGED <<fsVars, downloads, builder, cln>>
    /\ UNCHANGED <<orchVars, buildVars, verVars, envVars, acqVars>>
    /\ UNCHANGED <<mirVars, logVars, child, cfgDir>>

NextClean == CallClean \/ CallIsBuilt

SpecClean == InitClean /\ [][NextClean]_vars

----------------------------------------------------------------------------
(* Logging: run_command calls of one builder on its log file *)

\* the commands drawn, each with the directory it runs in
LoggedCommands ==
    {[cmd |-> "./contrib/download_prerequisites", cwd |-> "gcc-14.2.0"],
     [cmd |-> "make install", cwd |-> "gcc-14.2.0-build"]}

\* the output drawn
Outputs == UNION {[1..k -> Lines] : k \in 0..MaxLines}

InitLogging ==
    /\ InitFs /\ InitOrch /\ InitBuild /\ InitVer /\ InitEnv /\ InitAcq
    /\ InitMir /\ InitCln /\ InitLog /\ child = "none" /\ cfgDir = "none"

CallRunCommand ==
    /\ logged.n < MaxLogCmds
    /\ \E c \in LoggedCommands, outcome \in LogOutcomes, output \in Outputs :
          /\ log' = WriteLog(log, c.cmd, c.cwd, outcome, output)
          /\ logged' = [called |-> TRUE, n |-> logged.n + 1, pre |-> log, cmd |-> c.cmd,
                        cwd |-> c.cwd, outcome |-> outcome, output |-> output]
    /\ UNCHANGED <<fsVars, orchVars, buildVars, verVars, envVars, acqVars>>
    /\ UNCHANGED <<mirVars, clnVars, child, cfgDir>>

NextLogging == CallRunCommand

SpecLogging == InitLogging /\ [][NextLogging]_vars

----------------------------------------------------------------------------
(* Version resolution: get_versions() on every COMPAT_SET / override input *)

\* values of the COMPAT_SET environment variable drawn as inputs
CompatNames == {"latest", "stable", "legacy", "bogus", "Latest", ""}

\* values of a <TOOL>_VERSION environment variable drawn as inputs
OverrideValues == {"", "9.9.9"}

InitVersions ==
    /\ InitFs /\ InitOrch /\ InitBuild /\ InitEnv /\ InitAcq
    /\ InitExt /\ cfgDir = "none"
    /\ COMPAT_SET \in CompatNames
    /\ overrides \in [Tools -> OverrideValues]
    /\ resolved = [called |-> FALSE, raised |-> "none", versions |-> [t \in {} |-> ""]]

CallGetVersions ==
    /\ ~resolved.called
    /\ LET r == GetVersions(COMPAT_SET, overrides)
       IN  resolved' = [called |-> TRUE, raised |-> r.raised, versions |-> r.versions]
    /\ UNCHANGED <<COMPAT_SET, overrides, fsVars, orchVars, buildVars, envVars, acqVars>>
    /\ UNCHANGED extVars
    /\ UNCHANGED cfgDir

NextVersions == CallGetVersions

SpecVersions == InitVersions /\ [][NextVersions]_vars

----------------------------------------------------------------------------
(* Environment composition: get_build_env() on every bounded input *)

\* sequences of tools of length at most n
SeqsUpTo(n) == UNION {[1..k -> Tools] : k \in 0..n}

\* os.environ with and without PATH
OsEnvInputs == {DefaultOsEnv, [HOME |-> << <<"home">> >>]}

InitCompose ==
    /\ InitOrch /\ InitBuild /\ InitVer /\ InitAcq
    /\ InitExt /\ cfgDir = "none"
    /\ archive = AllAbsent /\ srcdir = AllAbsent /\ builddir = AllAbsent
    /\ bin \in [Tools -> {"absent", "empty", "complete"}]
    /\ tools_built \in SeqsUpTo(MaxBuiltLen)
    /\ osenv \in OsEnvInputs
    /\ envOut = [called |-> FALSE, env |-> NoEnv]

CallGetBuildEnv ==
    /\ ~envOut.called
    /\ envOut' = [called |-> TRUE, env |-> GetBuildEnv(tools_built, bin, osenv)]
    /\ UNCHANGED <<tools_built, osenv, fsVars, orchVars, buildVars, verVars, acqVars>>
    /\ UNCHANGED extVars
    /\ UNCHANGED cfgDir

NextCompose == CallGetBuildEnv

SpecCompose == InitCompose /\ [][NextCompose]_vars

----------------------------------------------------------------------------
(* Source acquisition: download_file / extract_archive calls on one tool's  *)
(* archive, in any order and any number                                     *)

InitAcquire ==
    /\ InitFs /\ InitOrch /\ InitBuild /\ InitVer /\ InitEnv
    /\ InitExt /\ cfgDir = "none"
    /\ target \in Tools
    /\ acq = [op |-> "none", preArchive |-> "absent", preDir |-> "absent",
              dret |-> "none", xret |-> NoPath, net |-> FALSE, wrote |-> FALSE,
              extracted |-> FALSE]
    /\ firstPath = NoPath

CallDownloadFile ==
    /\ \E outcome \in UrlOutcomes, kind \in RemoteKinds :
           LET r == DownloadFile(archive[target], outcome, kind)
           IN  /\ archive' = [archive EXCEPT ![target] = r.file]
               /\ acq' = [op |-> "download", preArchive |-> archive[target],
                          preDir |-> srcdir[target], dret |-> r.ret, xret |-> NoPath,
                          net |-> r.net, wrote |-> r.wrote, extracted |-> FALSE]
               /\ UNCHANGED <<srcdir, builddir, bin, target, firstPath,
                              orchVars, buildVars, verVars, envVars>>
    /\ UNCHANGED extVars
    /\ UNCHANGED cfgDir

CallExtractArchive ==
    /\ \E outcome \in ExtractOutcomes :
           LET r == ExtractArchive(target, archive[target], srcdir[target], outcome)
           IN  /\ srcdir' = [srcdir EXCEPT ![target] = r.dir]
               /\ acq' = [op |-> "extract", preArchive |-> archive[target],
                          preDir |-> srcdir[target], dret |-> "none", xret |-> r.ret,
                          net |-> FALSE, wrote |-> FALSE, extracted |-> r.extracted]
               /\ firstPath' = IF firstPath = NoPath THEN r.ret ELSE firstPath
               /\ UNCHANGED <<archive, builddir, bin, target,
                              orchVars, buildVars, verVars, envVars>>
    /\ UNCHANGED extVars
    /\ UNCHANGED cfgDir

\* the interrupt arrives while download_file is inside urlretrieve; the next
\* calls are those of a later process
InterruptDownloadFile ==
    /\ archive[target] = "absent"
    /\ \E point \in InterruptPoints :
           LET r == DownloadFileInterrupted(archive[target], point)
           IN  /\ archive' = [archive EXCEPT ![target] = r.file]
               /\ acq' = [op |-> "download", preArchive |-> archive[target],
                          preDir |-> srcdir[target], dret |-> r.ret, xret |-> NoPath,
                          net |-> r.net, wrote |-> r.wrote, extracted |-> FALSE]
               /\ UNCHANGED <<srcdir, builddir, bin, target, firstPath,
                              orchVars, buildVars, verVars, envVars>>
    /\ UNCHANGED extVars
    /\ UNCHANGED cfgDir

NextAcquire == CallDownloadFile \/ CallExtractArchive \/ InterruptDownloadFile

SpecAcquire == InitAcquire /\ [][NextAcquire]_vars

----------------------------------------------------------------------------
(* Build runs: the orchestrator over BUILD_ORDER and BaseBuilder.build()    *)

\* the tool whose turn it is
cur == BUILD_ORDER[idx]

orchRest == <<opc, run, force, idx, tstate, prevFailed, invoked>>

\* the file system a build run can start from: nothing extracted, built or
\* installed, every archive downloaded except at most MaxBadArchives
InitRun ==
    /\ InitOrch /\ InitBuild /\ InitVer /\ InitEnv /\ InitAcq
    /\ InitExt /\ cfgDir = "none"
    /\ archive \in {f \in [Tools -> ArchiveStates] :
                       Cardinality({t \in Tools : f[t] # "good"}) <= MaxBadArchives}
    /\ srcdir = AllAbsent
    /\ builddir = AllAbsent
    /\ bin = AllAbsent

\* the tool the invocation that just ended failed at
FailedTool ==
    IF \E t \in Tools : tstate[t] = "Failed"
    THEN CHOOSE t \in Tools : tstate[t] = "Failed"
    ELSE "none"

\* the operator invokes the orchestrator, with or without force-rebuild
StartRun ==
    /\ opc = "idle"
    /\ run < MaxRuns
    /\ \E f \in BOOLEAN : force' = f
    /\ run' = run + 1
    /\ idx' = 1
    /\ prevFailed' = FailedTool
    /\ tstate' = [t \in Tools |-> "Pending"]
    /\ invoked' = <<>>
    /\ failedAt' = {}
    /\ opc' = "loop"
    /\ UNCHANGED <<fsVars, buildVars, verVars, envVars, acqVars>>
    /\ UNCHANGED extVars
    /\ UNCHANGED cfgDir

\* Pending -> Skipped: is_built() is true and force-rebuild is not set
OrchSkip ==
    /\ opc = "loop"
    /\ idx <= Len(BUILD_ORDER)
    /\ ~force
    /\ IsBuilt(bin[cur])
    /\ tstate' = [tstate EXCEPT ![cur] = "Skipped"]
    /\ idx' = idx + 1
    /\ UNCHANGED <<opc, run, force, prevFailed, invoked, failedAt>>
    /\ UNCHANGED <<fsVars, buildVars, verVars, envVars, acqVars>>
    /\ UNCHANGED extVars
    /\ UNCHANGED cfgDir

\* Pending -> Building: build() of the tool is invoked
OrchBuild ==
    /\ opc = "loop"
    /\ idx <= Len(BUILD_ORDER)
    /\ force \/ ~IsBuilt(bin[cur])
    /\ tstate' = [tstate EXCEPT ![cur] = "Building"]
    /\ invoked' = Append(invoked, cur)
    /\ opc' = "building"
    /\ pc' = "extract"
    /\ src_dir' = NoPath
    /\ dependencies' = <<>>
    /\ env' = NoEnv
    /\ trace' = <<>>
    /\ cmds' = <<>>
    /\ result' = FALSE
    /\ cfgDir' = "none"
    /\ UNCHANGED <<run, force, idx, prevFailed, failedAt>>
    /\ UNCHANGED <<fsVars, verVars, envVars, acqVars>>
    /\ UNCHANGED extVars

\* a step of build() has ended: record it, and return or go on
StepDone(step, ok) ==
    /\ trace' = Append(trace, [step |-> step, ok |-> ok])
    /\ failedAt' = IF ok THEN failedAt ELSE failedAt \cup {cur}
    /\ IF Aborts(step, ok)
       THEN pc' = "ret" /\ result' = FALSE
       ELSE IF step = "post"
       THEN pc' = "ret" /\ result' = TRUE
       ELSE pc' = BuildSteps[StepIndex(step) + 1] /\ result' = result

\* src_dir = self.extract_source(); if not src_dir: return False
BuildExtract ==
    /\ pc = "extract"
    /\ \E outcome \in ExtractOutcomes :
          LET r == ExtractArchive(cur, archive[cur], srcdir[cur], outcome)
          IN  /\ srcdir' = [srcdir EXCEPT ![cur] = r.dir]
              /\ src_dir' = r.ret
              /\ StepDone("extract", r.ret # NoPath)
    /\ UNCHANGED <<archive, builddir, bin, dependencies, env, cmds>>
    /\ UNCHANGED <<orchRest, verVars, envVars, acqVars>>
    /\ UNCHANGED extVars
    /\ UNCHANGED cfgDir

\* if not self.pre_build_setup(src_dir): return False
BuildPre ==
    /\ pc = "pre"
    /\ \E scriptExists \in BOOLEAN, outcome \in CmdOutcomes :
          /\ srcdir[cur] = "complete" => scriptExists
          /\ LET r == PreBuildSetup(cur, src_dir, scriptExists, outcome)
             IN  /\ cmds' = cmds \o r.cmds
                 /\ StepDone("pre", r.ret)
    /\ UNCHANGED <<fsVars, src_dir, dependencies, env>>
    /\ UNCHANGED <<orchRest, verVars, envVars, acqVars>>
    /\ UNCHANGED extVars
    /\ UNCHANGED cfgDir

\* dependencies, environment, build directory, then configure
BuildConfigure ==
    /\ pc = "configure"
    /\ \E outcome \in CmdOutcomes :
          LET deps      == GetDependencies(cur)
              e         == GetBuildEnv(deps, bin, osenv)
              build_dir == GetBuildDirectory(cur, src_dir)
              c         == RunCommand([prog |-> src_dir \o << <<"configure">> >>,
                                       args |-> GetConfigureArgs(cur)],
                                      build_dir, e, outcome)
          IN  /\ dependencies' = deps
              /\ env' = e
              /\ builddir' = IF ~SeparateBuildDir(cur) THEN builddir
                             ELSE IF outcome = "exception"
                             THEN [builddir EXCEPT ![cur] = Mkdir(@)]
                             ELSE [builddir EXCEPT ![cur] = "dirty"]
              /\ cfgDir' = IF SeparateBuildDir(cur) THEN Mkdir(builddir[cur]) ELSE "source"
              /\ cmds' = Append(cmds, c)
              /\ StepDone("configure", c.ok)
    /\ UNCHANGED <<archive, srcdir, bin, src_dir>>
    /\ UNCHANGED <<orchRest, verVars, envVars, acqVars>>
    /\ UNCHANGED extVars

\* make -j<jobs>
BuildMake ==
    /\ pc = "make"
    /\ \E outcome \in CmdOutcomes :
          LET c == RunCommand([prog |-> << <<"make">> >>, args |-> << <<"-j", MAKE_JOBS>> >>],
                              GetBuildDirectory(cur, src_dir), env, outcome)
          IN  /\ cmds' = Append(cmds, c)
              /\ StepDone("make", c.ok)
    /\ UNCHANGED <<fsVars, src_dir, dependencies, env>>
    /\ UNCHANGED <<orchRest, verVars, envVars, acqVars>>
    /\ UNCHANGED extVars
    /\ UNCHANGED cfgDir

\* make install
BuildInstall ==
    /\ pc = "install"
    /\ \E outcome \in CmdOutcomes, effect \in InstallEffects :
          LET c == RunCommand([prog |-> << <<"make">> >>, args |-> << <<"install", <<>> >> >>],
                              GetBuildDirectory(cur, src_dir), env, outcome)
          IN  /\ bin' = [bin EXCEPT ![cur] = InstallBin(@, outcome, effect)]
              /\ cmds' = Append(cmds, c)
              /\ StepDone("install", c.ok)
    /\ UNCHANGED <<archive, srcdir, builddir, src_dir, dependencies, env>>
    /\ UNCHANGED <<orchRest, verVars, envVars, acqVars>>
    /\ UNCHANGED extVars
    /\ UNCHANGED cfgDir

\* if not self.post_build_setup(): return False; return True
BuildPost ==
    /\ pc = "post"
    /\ StepDone("post", PostBuildSetup(cur))
    /\ UNCHANGED <<fsVars, src_dir, dependencies, env, cmds>>
    /\ UNCHANGED <<orchRest, verVars, envVars, acqVars>>
    /\ UNCHANGED extVars
    /\ UNCHANGED cfgDir

\* Building -> Built: build() returned true, on to the next tool
OrchBuilt ==
    /\ opc = "building"
    /\ pc = "ret"
    /\ result
    /\ tstate' = [tstate EXCEPT ![cur] = "Built"]
    /\ idx' = idx + 1
    /\ opc' = "loop"
    /\ pc' = "idle"
    /\ UNCHANGED <<run, force, prevFailed, invoked, failedAt>>
    /\ UNCHANGED <<src_dir, dependencies, env, trace, cmds, result>>
    /\ UNCHANGED <<fsVars, verVars, envVars, acqVars>>
    /\ UNCHANGED extVars
    /\ UNCHANGED cfgDir

\* Building -> Failed: build() returned false, the orchestration halts
OrchFailed ==
    /\ opc = "building"
    /\ pc = "ret"
    /\ ~result
    /\ tstate' = [tstate EXCEPT ![cur] = "Failed"]
    /\ opc' = "idle"
    /\ pc' = "idle"
    /\ UNCHANGED <<run, force, idx, prevFailed, invoked, failedAt>>
    /\ UNCHANGED <<src_dir, dependencies, env, trace, cmds, result>>
    /\ UNCHANGED <<fsVars, verVars, envVars, acqVars>>
    /\ UNCHANGED extVars
    /\ UNCHANGED cfgDir

\* every tool is Built or Skipped: the invocation ends
OrchDone ==
    /\ opc = "loop"
    /\ idx > Len(BUILD_ORDER)
    /\ opc' = "idle"
    /\ UNCHANGED <<run, force, idx, tstate, prevFailed, invoked, failedAt>>
    /\ UNCHANGED <<fsVars, buildVars, verVars, envVars, acqVars>>
    /\ UNCHANGED extVars
    /\ UNCHANGED cfgDir

Next ==
    \/ StartRun
    \/ OrchSkip
    \/ OrchBuild
    \/ BuildExtract
    \/ BuildPre
    \/ BuildConfigure
    \/ BuildMake
    \/ BuildInstall
    \/ BuildPost
    \/ OrchBuilt
    \/ OrchFailed
    \/ OrchDone

Spec == InitRun /\ [][Next]_vars

----------------------------------------------------------------------------
(* Interrupts: SIGINT or SIGTERM during a command of a build run *)

\* whom a signal reaches: the Python process alone (kill <pid>), or its
\* whole process group, the running command included (Ctrl-C at a terminal)
SignalReach == {"process", "group"}

\* signal_handler: it sets `interrupted`, prints and calls sys.exit(1); it
\* never signals the external process, which ends only if the signal
\* reached it too
ChildAfterSignal(reach) == IF reach = "group" THEN "terminated" ELSE "running"

\* the command `make` or `make install` is running when the signal arrives:
\* SystemExit leaves run_command, build() and the run
Interrupt ==
    /\ opc = "building"
    /\ pc \in {"make", "install"}
    /\ \E reach \in SignalReach, effect \in InstallEffects :
          LET c == RunCommand([prog |-> << <<"make">> >>,
                               args |-> IF pc = "make" THEN << <<"-j", MAKE_JOBS>> >>
                                        ELSE << <<"install", <<>> >> >>],
                              GetBuildDirectory(cur, src_dir), env, "interrupted")
          IN  /\ cmds' = Append(cmds, c)
              /\ bin' = IF pc = "install"
                        THEN [bin EXCEPT ![cur] = InstallBin(@, "interrupted", effect)]
                        ELSE bin
              /\ child' = ChildAfterSignal(reach)
    /\ opc' = "exited"
    /\ pc' = "exited"
    /\ UNCHANGED <<archive, srcdir, builddir, src_dir, dependencies, env, trace, result>>
    /\ UNCHANGED <<run, force, idx, tstate, prevFailed, invoked, failedAt>>
    /\ UNCHANGED <<verVars, envVars, acqVars, mirVars, clnVars, logVars, cfgDir>>

\* the external process the signal did not reach runs on to its end
ChildRunsOn ==
    /\ child = "running"
    /\ child' = "finished"
    /\ \E outcome \in {"rc0", "rc1"}, effect \in InstallEffects :
          bin' = IF cmds[Len(cmds)].cmd.args[1][1] = "install"
                 THEN [bin EXCEPT ![cur] = InstallBin(@, outcome, effect)]
                 ELSE bin
    /\ UNCHANGED <<archive, srcdir, builddir>>
    /\ UNCHANGED <<orchVars, buildVars, verVars, envVars, acqVars>>
    /\ UNCHANGED <<mirVars, clnVars, logVars, cfgDir>>

NextSignals == Next \/ Interrupt \/ ChildRunsOn

SpecSignals == InitRun /\ [][NextSignals]_vars

----------------------------------------------------------------------------
(* Build runs followed by a clean() of the tool that failed *)

\* the builder the run constructs for a tool
BuilderOf(t) == [tool_name |-> t, version |-> Version(t)]

\* the downloads directory as clean() lists it: the archives, source
\* directories and build directories there are
EntriesOf(ar, sd, bd) ==
    {[name |-> ArchiveName(BuilderOf(t)), dir |-> FALSE] : t \in {u \in Tools : ar[u] # "absent"}}
    \cup {[name |-> SrcPattern(BuilderOf(t)), dir |-> TRUE] : t \in {u \in Tools : sd[u] # "absent"}}
    \cup {[name |-> BuildPattern(BuilderOf(t)), dir |-> TRUE] : t \in {u \in Tools : bd[u] # "absent"}}

\* a directory or file of the tools' after clean(): as it was if its entry
\* is still listed, else absent
KeptIn(dl, entry, was) == IF entry \in dl THEN was ELSE "absent"

\* clean() of the tool the last run failed at, after the runs have ended; an
\* install directory left without bin counts as a bin directory that is
\* absent
OrchClean ==
    /\ opc = "idle"
    /\ run >= 1
    /\ ~cln.called
    /\ \E t \in {u \in Tools : tstate[u] = "Failed"} :
         LET b  == BuilderOf(t)
             dl == EntriesOf(archive, srcdir, builddir)
         IN  \E f \in CleanFaults(b, dl, bin[t]) :
               \E r \in {Clean(b, dl, bin[t], f)} :
                  /\ bin' = [bin EXCEPT ![t] = IF r.bin = "nobin" THEN "absent" ELSE r.bin]
                  /\ archive' = [u \in Tools |->
                        KeptIn(r.downloads, [name |-> ArchiveName(BuilderOf(u)), dir |-> FALSE],
                               archive[u])]
                  /\ srcdir' = [u \in Tools |->
                        KeptIn(r.downloads, [name |-> SrcPattern(BuilderOf(u)), dir |-> TRUE],
                               srcdir[u])]
                  /\ builddir' = [u \in Tools |->
                        KeptIn(r.downloads, [name |-> BuildPattern(BuilderOf(u)), dir |-> TRUE],
                               builddir[u])]
                  /\ builder' = b
                  /\ cln' = [called |-> TRUE, pre |-> dl, preBin |-> bin[t], fault |-> f.at,
                             ret |-> r.ret, propagated |-> r.propagated]
    /\ UNCHANGED <<downloads, isb>>
    /\ UNCHANGED <<orchVars, buildVars, verVars, envVars, acqVars>>
    /\ UNCHANGED <<mirVars, logVars, child, cfgDir>>

\* the runs, then the clean()
RunsBeforeClean == ~cln.called /\ Next

NextLifecycle == RunsBeforeClean \/ OrchClean

SpecLifecycle == InitRun /\ [][NextLifecycle]_vars

----------------------------------------------------------------------------
(* Properties *)

Range(seq) == {seq[i] : i \in DOMAIN seq}

\* the kinds of command build() runs, told by program and first argument
IsConfigureCmd(c) == Len(c.cmd.prog) > 1 /\ c.cmd.prog[Len(c.cmd.prog)] = <<"configure">>
IsMakeCmd(c)      == c.cmd.prog = << <<"make">> >> /\ c.cmd.args[1][1] = "-j"
IsInstallCmd(c)   == c.cmd.prog = << <<"make">> >> /\ c.cmd.args[1][1] = "install"

\* the build() whose steps and commands trace and cmds hold
BuildingTool == invoked[Len(invoked)]

\* C1: build() runs extract, pre-build hook, configure, make, make install,
\* post-build hook in this order; a step that fails is the last step run and
\* makes build() return false; build() returns true only after all six steps
\* succeeded; make install is never run after a make that did not exit 0.
C1_BuildStepsInOrder ==
    /\ Len(trace) <= Len(BuildSteps)
    /\ \A i \in DOMAIN trace : trace[i].step = BuildSteps[i]
    /\ \A i \in DOMAIN trace :
          ~trace[i].ok => i = Len(trace) /\ pc \in {"ret", "idle"} /\ ~result
    /\ pc \in Range(BuildSteps) => pc = BuildSteps[Len(trace) + 1]
    /\ result => Len(trace) = Len(BuildSteps) /\ \A i \in DOMAIN trace : trace[i].ok
    /\ \A i \in DOMAIN cmds :
          IsMakeCmd(cmds[i]) /\ cmds[i].outcome # "rc0" =>
              /\ i = Len(cmds)
              /\ \A j \in DOMAIN trace : trace[j].step # "install"

\* C1 witness: make exited nonzero after extract, pre-build hook and
\* configure succeeded, and build() is returning false
C1_Witness ==
    /\ pc = "ret"
    /\ ~result
    /\ Len(trace) = 4
    /\ trace[4] = [step |-> "make", ok |-> FALSE]
    /\ cmds[Len(cmds)].outcome = "rc1"

\* C2: when a step of tool k's build fails, no tool after k in BUILD_ORDER
\* has its build() invoked or leaves Pending, every tool before k is Built or
\* Skipped, k ends Failed, and at most one tool is Failed.
C2_HaltOnFirstFailure ==
    /\ \A k \in failedAt :
          /\ \A j \in DOMAIN BUILD_ORDER :
                j > IndexOf(k) =>
                    /\ BUILD_ORDER[j] \notin Range(invoked)
                    /\ tstate[BUILD_ORDER[j]] = "Pending"
          /\ \A j \in DOMAIN BUILD_ORDER :
                j < IndexOf(k) => tstate[BUILD_ORDER[j]] \in {"Built", "Skipped"}
          /\ tstate[k] \in {"Building", "Failed"}
          /\ opc = "idle" => tstate[k] = "Failed"
    /\ Cardinality({t \in Tools : tstate[t] = "Failed"}) <= 1
    /\ \A t \in Tools : tstate[t] = "Failed" => t \in failedAt

\* C2 witness: the run halted at make, after binutils was skipped and gcc built
C2_Witness ==
    /\ opc = "idle"
    /\ tstate["binutils"] = "Skipped"
    /\ tstate["gcc"] = "Built"
    /\ tstate["make"] = "Failed"
    /\ tstate["autoconf"] = "Pending"

\* C3 (as claimed): without force-rebuild a tool that is built at its turn is
\* skipped and its build() is not invoked, and an invocation that follows one
\* that failed at tool k invokes no build() before k and does not skip k.
C3_ResumeRebuildsFailedTool ==
    /\ \A t \in Tools : tstate[t] = "Skipped" => t \notin Range(invoked)
    /\ (~force /\ opc = "building" /\ pc \in {"extract", "pre", "configure", "make", "install"})
          => ~IsBuilt(bin[cur])
    /\ (~force /\ prevFailed # "none") =>
          /\ tstate[prevFailed] # "Skipped"
          /\ \A j \in DOMAIN BUILD_ORDER :
                j < IndexOf(prevFailed) => BUILD_ORDER[j] \notin Range(invoked)

\* C4: every entry of a tool's get_dependencies() list is a tool strictly
\* earlier in BUILD_ORDER, both for the six builders as declared and for the
\* list a running build() composes its environment from.
C4_DependenciesPrecede ==
    /\ \A t \in Tools :
          \A i \in DOMAIN GetDependencies(t) :
              /\ GetDependencies(t)[i] \in Tools
              /\ IndexOf(GetDependencies(t)[i]) < IndexOf(t)
    /\ invoked # <<>> =>
          \A i \in DOMAIN dependencies :
              IndexOf(dependencies[i]) < IndexOf(BuildingTool)

\* C4 witness: libtool's build() has read its five dependencies
C4_Witness ==
    /\ invoked # <<>>
    /\ BuildingTool = "libtool"
    /\ Len(dependencies) = 5
    /\ pc = "make"

\* the listed tools whose bin directory exists, in the order listed
ListedWithBin == SelectSeq(tools_built, LAMBDA t : bin[t] # "absent")

\* the PATH the process inherited ('' when it has none)
InheritedPath == IF "PATH" \in DOMAIN osenv THEN osenv["PATH"] ELSE << <<>> >>

\* p is the bin directories of the listed tools that have one, in the order
\* listed, followed by the inherited PATH and nothing else
PathIsBinsThenInherited(p) ==
    LET n == Len(ListedWithBin)
    IN  /\ Len(p) = n + Len(InheritedPath)
        /\ \A i \in 1..n : p[i] = LOCAL_PREFIX \o << <<ListedWithBin[i]>>, <<"bin">> >>
        /\ \A i \in 1..Len(InheritedPath) : p[n + i] = InheritedPath[i]

\* C5 (as claimed): for every non-empty tools_built, get_build_env produces a
\* PATH made of the bin directories of exactly the listed tools that have
\* one, in the order listed, followed by the inherited PATH as last component.
C5_PathForEveryNonEmptyList ==
    (envOut.called /\ tools_built # <<>>) =>
        /\ "PATH" \in DOMAIN envOut.env
        /\ PathIsBinsThenInherited(envOut.env["PATH"])

\* C5 (amended): when at least one listed tool has a bin directory,
\* get_build_env produces a PATH made of the bin directories of exactly the
\* listed tools that have one, in the order listed, followed by the inherited
\* PATH; when none has, it produces no PATH entry at all.
C5_PathWhenSomeBinExists ==
    envOut.called =>
        IF ListedWithBin # <<>>
        THEN /\ "PATH" \in DOMAIN envOut.env
             /\ PathIsBinsThenInherited(envOut.env["PATH"])
        ELSE "PATH" \notin DOMAIN envOut.env

\* C5 witness: two different tools are listed, only the second has a bin
\* directory, and the environment is composed
C5_Witness ==
    /\ envOut.called
    /\ Len(tools_built) = 2
    /\ tools_built[1] # tools_built[2]
    /\ bin[tools_built[1]] = "absent"
    /\ bin[tools_built[2]] # "absent"
    /\ "PATH" \in DOMAIN envOut.env

\* C6: every configure, make and make install command of a gcc build() run
\* while <prefix>/binutils/bin exists gets an environment whose PATH has
\* <prefix>/binutils/bin at a position before the inherited PATH, which ends it.
C6_GccPathHasBinutils ==
    (invoked # <<>> /\ BuildingTool = "gcc" /\ bin["binutils"] # "absent") =>
        \A i \in DOMAIN cmds :
            (IsConfigureCmd(cmds[i]) \/ IsMakeCmd(cmds[i]) \/ IsInstallCmd(cmds[i])) =>
                /\ "PATH" \in DOMAIN cmds[i].env
                /\ LET p == cmds[i].env["PATH"]
                       k == Len(p) - Len(InheritedPath)
                   IN  /\ k >= 1
                       /\ \E j \in 1..k : p[j] = LOCAL_PREFIX \o << <<"binutils">>, <<"bin">> >>
                       /\ \A j \in 1..Len(InheritedPath) : p[k + j] = InheritedPath[j]

\* C6 witness: gcc's build() has run configure, make and make install with
\* binutils skipped as already built
C6_Witness ==
    /\ invoked = <<"gcc">>
    /\ tstate["binutils"] = "Skipped"
    /\ pc = "post"
    /\ Len(cmds) >= 3
    /\ IsInstallCmd(cmds[Len(cmds)])

\* C7: get_versions returns a non-empty version for every tool of BUILD_ORDER
\* when COMPAT_SET is latest, stable or legacy, whatever the overrides; for
\* any other name it raises and returns no version set.
C7_VersionsTotalOrError ==
    resolved.called =>
        IF COMPAT_SET \in {"latest", "stable", "legacy"}
        THEN /\ resolved.raised = "none"
             /\ \A i \in DOMAIN BUILD_ORDER :
                   /\ BUILD_ORDER[i] \in DOMAIN resolved.versions
                   /\ resolved.versions[BUILD_ORDER[i]] # ""
        ELSE /\ resolved.raised = "ValueError"
             /\ DOMAIN resolved.versions = {}

\* C7 witness: the legacy set is resolved with gcc overridden and libtool not
C7_Witness ==
    /\ resolved.called
    /\ COMPAT_SET = "legacy"
    /\ overrides["gcc"] # ""
    /\ overrides["libtool"] = ""
    /\ resolved.versions["libtool"] = "2.4.6"

\* C8: for a known compatibility set, each tool's resolved version is its
\* override when that is non-empty and the set's version otherwise, and
\* changing another tool's override leaves it as it is.
C8_OverridePrecedence ==
    (resolved.called /\ resolved.raised = "none") =>
        /\ \A t \in Tools :
              resolved.versions[t] =
                  IF overrides[t] # "" THEN overrides[t]
                  ELSE COMPATIBILITY_SETS[COMPAT_SET][t]
        /\ \A u \in Tools, v \in OverrideValues :
              \A t \in Tools \ {u} :
                  GetVersions(COMPAT_SET, [overrides EXCEPT ![u] = v]).versions[t]
                      = resolved.versions[t]

\* C8 witness: the stable set is resolved with gcc overridden and make not
C8_Witness ==
    /\ resolved.called
    /\ COMPAT_SET = "stable"
    /\ overrides["gcc"] = "9.9.9"
    /\ overrides["make"] = ""
    /\ resolved.versions["gcc"] = "9.9.9"
    /\ resolved.versions["make"] = "4.4.1"

\* the last call was made with the archive and the extracted directory present
CalledOnPopulated == acq.preArchive # "absent" /\ acq.preDir # "absent"

\* C9: a download_file or extract_archive call made when the archive and the
\* extracted directory already exist does no download and no extraction,
\* leaves both unchanged, and extract_archive returns the extracted
\* directory's path, the same path as the first extraction that returned one.
C9_AcquireIdempotent ==
    /\ (acq.op = "download" /\ CalledOnPopulated) =>
          /\ ~acq.net /\ ~acq.wrote
          /\ acq.dret = "True"
          /\ archive[target] = acq.preArchive
          /\ srcdir[target] = acq.preDir
    /\ (acq.op = "extract" /\ CalledOnPopulated) =>
          /\ ~acq.extracted
          /\ archive[target] = acq.preArchive
          /\ srcdir[target] = acq.preDir
          /\ acq.xret = DOWNLOADS \o << <<target, COMPATIBILITY_SETS["latest"][target]>> >>
          /\ acq.xret = firstPath

\* C9 witness: extract_archive was called again on a complete extracted tree
C9_Witness ==
    /\ acq.op = "extract"
    /\ acq.preArchive = "good"
    /\ acq.preDir = "complete"
    /\ acq.xret # NoPath

\* C10: when download_file returns false for a destination that did not
\* exist before the call, the destination does not exist afterwards.
C10_FailedDownloadLeavesNoFile ==
    (acq.op = "download" /\ acq.preArchive = "absent" /\ acq.dret = "False") =>
        archive[target] = "absent"

\* C10 witness: a transfer failed after part of the file was written, and
\* download_file returned false
C10_Witness ==
    /\ acq.op = "download"
    /\ acq.preArchive = "absent"
    /\ acq.wrote
    /\ acq.dret = "False"

----------------------------------------------------------------------------
(* Mirror selection *)

\* the cache entry the last call found is one the caller's list can use
CachedEntryUsable ==
    /\ ~mir.force_test
    /\ mir.pre.kind = "entry"
    /\ mir.at - mir.pre.timestamp < CACHE_TTL
    /\ \E i \in DOMAIN mir.mirrors : mir.mirrors[i] = mir.pre.best_mirror

\* C11: find_fastest_mirror returns the cached mirror without probing any
\* mirror exactly when force_test is false, a readable cache entry exists,
\* its age is below 86400 s and its best_mirror is in the list; in every
\* other case every mirror of the list is probed once, in list order.
C11_CachedOrEveryMirrorProbed ==
    mir.called =>
        IF CachedEntryUsable
        THEN mir.raised = "none" /\ mir.ret = mir.pre.best_mirror /\ mir.probes = <<>>
        ELSE mir.probes = mir.mirrors

\* an entry one second short of 24 hours old is returned without a probe,
\* though it is not the first mirror of the list
C11_Witness ==
    /\ mir.called /\ CachedEntryUsable
    /\ mir.at - mir.pre.timestamp = CACHE_TTL - 1
    /\ Len(mir.mirrors) = MaxMirrors
    /\ mir.ret = mir.mirrors[MaxMirrors]
    /\ mir.probes = <<>>

\* the probe of the i-th mirror of the last call answered
Answered(i) == mir.outcomes[i].ok

\* C12: the returned mirror has the least elapsed time of the mirrors
\* probed, the earliest in the list among equals; a mirror whose probe
\* failed is returned only when every probe failed, and then it is the
\* first of the list.
C12_FastestEarliestWins ==
    (mir.called /\ mir.probes # <<>>) =>
        IF \E j \in DOMAIN mir.mirrors : Answered(j)
        THEN \E i \in DOMAIN mir.mirrors :
                /\ mir.ret = mir.mirrors[i]
                /\ Answered(i)
                /\ \A j \in DOMAIN mir.mirrors :
                      Answered(j) => /\ mir.outcomes[i].elapsed <= mir.outcomes[j].elapsed
                                     /\ j < i => mir.outcomes[i].elapsed < mir.outcomes[j].elapsed
        ELSE mir.ret = mir.mirrors[1]

\* two mirrors answered in the same time and the first was returned
C12_Witness ==
    /\ mir.called /\ Len(mir.probes) = MaxMirrors
    /\ Answered(1) /\ Answered(MaxMirrors)
    /\ mir.outcomes[1].elapsed = mir.outcomes[MaxMirrors].elapsed
    /\ mir.ret = mir.mirrors[1]

\* the last call returned a member of its list, and would have returned the
\* same one whatever the write of the cache did
ReturnedMemberWhateverTheWrite ==
    /\ mir.raised = "none"
    /\ \E i \in DOMAIN mir.mirrors : mir.mirrors[i] = mir.ret
    /\ \A wr \in WriteOutcomes :
          LET r == FindFastestMirror(mir.mirrors, mir.force_test, mir.pre, mir.at,
                                     mir.outcomes, wr)
          IN  r.raised = "none" /\ r.ret = mir.ret

\* C13 as stated: for every mirror list, and whatever probes, cache
\* directory, cache read and cache write do, find_fastest_mirror returns
\* normally a member of the list, the same one whether or not the cache
\* write succeeded.
C13_NeverFatalForEveryList == mir.called => ReturnedMemberWhateverTheWrite

\* C13: for every mirror list that is not empty, and whatever probes,
\* cache directory, cache read and cache write do, find_fastest_mirror
\* returns normally a member of the list, the same one whether or not the
\* cache write succeeded.
C13_NeverFatalForNonEmptyList ==
    (mir.called /\ mir.mirrors # <<>>) => ReturnedMemberWhateverTheWrite

\* every probe failed, the cache could not be read and could not be
\* written, and the first mirror of the list was returned
C13_Witness ==
    /\ mir.called /\ Len(mir.mirrors) = MaxMirrors
    /\ mir.pre.kind \in {"corrupt", "malformed"}
    /\ \A i \in DOMAIN mir.mirrors : ~Answered(i)
    /\ mir.wr # "ok"
    /\ mir.raised = "none" /\ mir.ret = mir.mirrors[1]

----------------------------------------------------------------------------
(* GCC prerequisites and the build directory *)

IsPrereqCmd(c) == c.cmd.prog[Len(c.cmd.prog)] = <<"download_prerequisites">>

\* C14: GccBuilder.pre_build_setup returns success whether the prerequisite
\* script is missing, exits nonzero or succeeds, so a gcc build whose
\* extraction succeeded always goes on to configure.
C14_GccPrereqNeverFatal ==
    (invoked # <<>> /\ BuildingTool = "gcc" /\ Len(trace) >= 1 /\ trace[1].ok) =>
        /\ Len(trace) = 1 => pc = "pre"
        /\ Len(trace) >= 2 => trace[2] = [step |-> "pre", ok |-> TRUE]
        /\ Len(trace) = 2 => pc = "configure"

\* gcc's build() stands before configure after a prerequisite script that
\* did not exit 0
C14_Witness ==
    /\ invoked # <<>> /\ BuildingTool = "gcc"
    /\ Len(trace) = 2 /\ pc = "configure"
    /\ Len(cmds) = 1 /\ IsPrereqCmd(cmds[1]) /\ cmds[1].outcome # "rc0"

\* C15: binutils, gcc and make run configure, make and make install in
\* <downloads>/<tool>-<version>-build, which is not the source directory and
\* is empty when configure starts, also on a rebuild after a failed attempt;
\* autoconf, automake and libtool run them in the extracted source directory.
C15_BuildDirSeparateAndFresh ==
    (invoked # <<>> /\ cfgDir # "none") =>
        /\ \A i \in DOMAIN cmds :
              (IsConfigureCmd(cmds[i]) \/ IsMakeCmd(cmds[i]) \/ IsInstallCmd(cmds[i])) =>
                  IF BuildingTool \in {"binutils", "gcc", "make"}
                  THEN /\ cmds[i].cwd = DOWNLOADS \o <<BuildName(BuildingTool)>>
                       /\ cmds[i].cwd # src_dir
                  ELSE cmds[i].cwd = src_dir
        /\ BuildingTool \in {"binutils", "gcc", "make"} => cfgDir = "empty"

----------------------------------------------------------------------------
(* clean() and is_built() *)

\* the downloads directory holds a directory of this name
HasDir(dl, name) == [name |-> name, dir |-> TRUE] \in dl

\* the downloads directory holds a file of this name
HasFile(dl, name) == [name |-> name, dir |-> FALSE] \in dl

\* C16: after clean() returned success the install directory does not
\* exist, is_built() is false, the downloads directory has no directory
\* named <tool>-<version> or <tool>-<version>-build, and the tool's source
\* archive is still there.
C16_CleanRemovesAllButArchive ==
    (cln.called /\ cln.ret) =>
        /\ bin[builder.tool_name] = "absent"
        /\ isb.called => ~isb.ret
        /\ ~HasDir(downloads, SrcPattern(builder))
        /\ ~HasDir(downloads, BuildPattern(builder))
        /\ HasFile(cln.pre, ArchiveName(builder)) => HasFile(downloads, ArchiveName(builder))

\* clean() succeeded on a complete install with source directory, build
\* directory and archive in place, and is_built() was asked afterwards
C16_Witness ==
    /\ cln.called /\ cln.ret /\ isb.called
    /\ cln.preBin = "complete"
    /\ HasDir(cln.pre, SrcPattern(builder))
    /\ HasDir(cln.pre, BuildPattern(builder))
    /\ HasFile(cln.pre, ArchiveName(builder))

\* C17: an exception of a removal or of a listing in clean() is never
\* propagated; clean() then returns failure, and it returns success only
\* when every removal it attempted completed.
C17_CleanFailureCaught ==
    cln.called =>
        /\ ~cln.propagated
        /\ cln.fault # "none" => ~cln.ret
        /\ cln.ret =>
              /\ cln.fault = "none"
              /\ InstallDirExists(cln.preBin) => bin[builder.tool_name] = "absent"
              /\ \A x \in cln.pre :
                    (x.dir /\ StartsWith(x.name, SrcPattern(builder))) => x \notin downloads

\* the removal of one directory failed after another had been removed, and
\* clean() returned failure
C17_Witness ==
    /\ cln.called /\ cln.fault = "item" /\ ~cln.ret /\ ~cln.propagated
    /\ downloads # cln.pre
    /\ \E x \in downloads : x.dir /\ StartsWith(x.name, SrcPattern(builder))

\* C20: is_built() is true exactly when <LOCAL_PREFIX>/<tool>/bin exists
\* and holds an entry, whatever the version, the archive, the source and
\* build directories and the other tools' install directories are.
C20_IsBuiltIffBinHasEntry ==
    isb.called =>
        (isb.ret <=> bin[builder.tool_name] \notin {"absent", "nobin", "empty"})

\* is_built() answered false for a bin directory that exists and is empty,
\* with the tool's archive and source directory in the downloads directory
\* and another tool installed
C20_Witness ==
    /\ isb.called /\ ~isb.ret
    /\ bin[builder.tool_name] = "empty"
    /\ HasFile(downloads, ArchiveName(builder))
    /\ HasDir(downloads, SrcPattern(builder))
    /\ \E t \in Tools : t # builder.tool_name /\ bin[t] = "complete"

----------------------------------------------------------------------------
(* The log file *)

\* what the last invocation added to the log file
Added == SubSeq(log, Len(logged.pre) + 1, Len(log))

\* the log file before the last invocation begins the log file after it
EarlierIsPrefix ==
    Len(logged.pre) <= Len(log) /\ SubSeq(log, 1, Len(logged.pre)) = logged.pre

\* the last invocation added its command and working directory, then every
\* line of its output in order
HeaderThenOutput ==
    /\ Len(Added) >= 4 + Len(logged.output)
    /\ Added[2] = LogLine("Command", logged.cmd)
    /\ Added[3] = LogLine("Working directory", logged.cwd)
    /\ \A i \in DOMAIN logged.output : Added[4 + i] = LogLine("output", logged.output[i])

\* the last invocation added, after its output, its return code or exception
EndsWithCodeOrException ==
    /\ Len(Added) = 5 + Len(logged.output)
    /\ Added[Len(Added)].kind \in {"Return code", "Exception"}

----------------------------------------------------------------------------
(* Cancellation *)

\* C19: when SIGINT or SIGTERM arrives while an external process started by
\* run_command is running, that process is terminated and the run stops: no
\* further step of the current tool and no later tool is started.
C19_InterruptEndsChildAndRun ==
    opc = "exited" =>
        /\ child = "terminated"
        /\ pc = "exited"
        /\ \A t \in Tools : IndexOf(t) > idx => tstate[t] = "Pending"

----------------------------------------------------------------------------
(* Declared dependencies and BUILD_ORDER *)

\* the tools ahead of t in BUILD_ORDER, in that order
Preceding(t) == SubSeq(BUILD_ORDER, 1, IndexOf(t) - 1)

\* C27: every tool's declared dependency list is the sequence of all tools
\* ahead of it in BUILD_ORDER, in that order, so the environment build()
\* composes from the declared dependencies is the one composed from the
\* list of all tools ahead of it.
C27_DependenciesAreAllPreceding ==
    /\ \A t \in Tools : GetDependencies(t) = Preceding(t)
    /\ (invoked # <<>> /\ cfgDir # "none") =>
          /\ dependencies = Preceding(BuildingTool)
          /\ env = GetBuildEnv(Preceding(BuildingTool), bin, osenv)

\* libtool's build() composed its environment with the five tools ahead of
\* it installed, and has come to make install
C27_Witness ==
    /\ invoked # <<>> /\ BuildingTool = "libtool"
    /\ pc = "install"
    /\ "PATH" \in DOMAIN env
    /\ Len(env["PATH"]) = Len(BUILD_ORDER) - 1 + Len(CurrentPath(osenv))

----------------------------------------------------------------------------
(* The installation prefix tree *)

\* every configure of the build() under way was given --prefix=<prefix>/<tool>
ConfiguredIntoOwnSubtree ==
    invoked # <<>> =>
        \A i \in DOMAIN cmds :
            IsConfigureCmd(cmds[i]) =>
                cmds[i].cmd.args[1] = <<"--prefix", LOCAL_PREFIX \o << <<BuildingTool>> >> >>

\* a step changes <prefix>/<U> only if it is a step of U's build() or U's clean()
OnlyOwnSubtreeChanges ==
    \A u \in Tools :
        bin'[u] # bin[u] =>
            \/ opc = "building" /\ u = cur
            \/ ~cln.called /\ cln'.called /\ u = builder'.tool_name

\* C21: every configure is given --prefix=<LOCAL_PREFIX>/<tool>, and build()
\* and clean() of a tool leave <LOCAL_PREFIX>/<U> as it was for every other
\* tool U.
C21_OnlyOwnPrefixSubtreeMutated ==
    []ConfiguredIntoOwnSubtree /\ [][OnlyOwnSubtreeChanges]_vars

\* gcc's install failed after writing into its bin directory, clean() of
\* gcc removed it, and binutils is installed as before
C21_Witness ==
    /\ cln.called /\ cln.ret
    /\ builder.tool_name = "gcc"
    /\ cln.preBin = "partial"
    /\ bin["gcc"] = "absent"
    /\ bin["binutils"] = "complete"
    /\ \E i \in DOMAIN cmds : IsConfigureCmd(cmds[i])

\* an entry of the downloads directory that is the source or the build
\* directory of the builder's tool at the builder's version
BelongsTo(b, entry) ==
    entry.dir /\ entry.name \in {SrcPattern(b), BuildPattern(b)}

\* C22: clean() of a tool at a version leaves in the downloads directory
\* every archive file and every directory whose name is neither exactly
\* <tool>-<version> nor exactly <tool>-<version>-build.
C22_CleanKeepsWhatIsNotItsOwn ==
    cln.called =>
        \A entry \in cln.pre : ~BelongsTo(builder, entry) => entry \in downloads

\* what does hold of clean(): archive files and the directories of other
\* tools stay
CleanKeepsFilesAndOtherTools ==
    cln.called =>
        \A entry \in cln.pre :
            (~entry.dir \/ entry.name[1] # SrcPattern(builder)[1]) => entry \in downloads

\* C23: is_built() is true of a tool only if a `make install` of that tool
\* ended successfully since its install directory was last absent (the bin
\* directory is "complete" only then); a build that failed or was cut short
\* in `make install` does not leave the tool reported as built.
C23_BuiltOnlyAfterCompletedInstall ==
    \A t \in Tools : IsBuilt(bin[t]) => bin[t] = "complete"

----------------------------------------------------------------------------
(* Source acquisition after failures *)

\* C24: whenever extract_archive returns a path, the directory of that path
\* holds the complete contents of the archive, also when the call follows an
\* extraction that failed part-way and takes the "directory already exists"
\* shortcut.
C24_ReturnedPathIsCompleteTree ==
    (acq.op = "extract" /\ acq.xret # NoPath) => srcdir[target] = "complete"

\* C25: a download_file call on a destination that does not exist, which
\* ends other than by a download run to completion (it returns false, it
\* raises, or it is cut short by the interrupt handler), leaves no
\* destination file; so after any sequence of calls the file exists only if
\* some download ran to completion.
C25_FileOnlyFromCompletedDownload ==
    (acq.op = "download" /\ acq.preArchive = "absent" /\ acq.dret # "True") =>
        archive[target] = "absent"

----------------------------------------------------------------------------
(* The mirror cache after failed probes *)

\* the last call returned the cached mirror without probing
ServedFromCache == mir.called /\ mir.raised = "none" /\ mir.probes = <<>>

\* C26: a cache entry is written only by a sweep in which a probe succeeded
\* (so it carries that probe's speed), and a call that returns the cached
\* mirror without probing returns a mirror whose probe succeeded; after a
\* sweep in which every probe failed the next non-forced call probes again.
C26_FailedMirrorNeverCached ==
    /\ cache.kind = "entry" => cache.speed # NoSpeed
    /\ ServedFromCache => mir.pre.speed # NoSpeed

=============================================================================
